---- MODULE Spec2Model ----
(***************************************************************************)
(* Model of the DeepHealth evaluation client: deploy_evaluation.py (the    *)
(* run, packaging, the transfer protocol, polling, result reconciliation)  *)
(* and utils.py (the identity hasher and the study ingest pipeline).       *)
(*                                                                         *)
(* Strings that the code inspects character by character (paths, tokens)   *)
(* are sequences: a path is a sequence of code points, a token a sequence  *)
(* of hexadecimal digit values 0..15.                                      *)
(***************************************************************************)
EXTENDS Integers, Sequences, FiniteSets, TLC

VARIABLES
    \* ---- the client's input and the digest (shared by the specifications)
    input_,          \* os.path.realpath(args.input): a path string
    input_kind,      \* "file" | "dir" | "missing": what input_ names
    tree,            \* the directory input_ names (or the parent of the file)
    sha,             \* hashlib.sha256(..).hexdigest() on the ASCII paths met
    \* ---- download_remote_results
    poll_arg,        \* the max_attempts argument of the call
    poll_i,          \* local i
    poll_max,        \* local max_attempts
    poll_log,        \* status codes of the GET attempts made, in order
    poll_pc,         \* "idle" | "loop" | "returned_file" | "returned_none"
    \* ---- unhash_results
    un_pc,           \* "idle" | "map" | "extract" | "study" | "dicom" | "persist" | "returned" | "raised"
    hash_map,        \* token -> original path
    zip_study,       \* study-level table inside the downloaded archive
    zip_dicom,       \* image-level table inside the downloaded archive
    study_csv,       \* file at study_df_path: [kind, rows]
    dicom_csv,       \* file at dicom_df_path: [kind, rows]
    study_df,        \* in-memory study table
    dicom_df,        \* in-memory image table
    un_error,        \* the exception unhash_results raised, or "none"
    \* ---- read_study / read_dicom
    st_pc,           \* "idle" | "loop" | "persist" | "returned" | "raised"
    st_todo,         \* os.listdir entries not yet visited
    st_only,         \* only_include (a path) or None
    study_metadata,  \* rows appended so far
    st_skipped,      \* paths of the files skipped with a warning
    pixel_reads,     \* paths of the files whose ds.pixel_array was read
    store,           \* files under preprocess_dir, as path tuples
    \* ---- the run (__main__)
    pc,              \* position of the run
    arg_preprocess,  \* "none" | "absent" | "file" | "empty" | "nonempty"
    arg_results_url, \* TRUE when --results_url was given
    keep_preprocessed_dir,
    dir_exists,      \* preprocess_dir exists on disk
    archive,         \* the temporary archive exists on disk
    walk_todo,       \* os.walk entries not yet visited
    num_studies,
    num_images,
    ingested,        \* study paths handed to read_study, in order
    limit_hit,       \* the walk entry at which the limit stopped the walk, or None
    file_size,       \* os.stat(tmp_file).st_size as zip_files read it, 0 before
    session_id,      \* the session id POST /new returned, "" before
    n_attempts,      \* Terms-of-Service prompt counter
    tos_answers,     \* what the user typed at each prompt, in order
    net,             \* network calls made, in order
    exit_reason      \* why the run ended, "" while it runs

inputVars == <<input_, input_kind, tree, sha>>
pollVars  == <<poll_arg, poll_i, poll_max, poll_log, poll_pc>>
unVars    == <<un_pc, hash_map, zip_study, zip_dicom, study_csv, dicom_csv,
               study_df, dicom_df, un_error>>
stVars    == <<st_pc, st_todo, st_only, study_metadata, st_skipped, pixel_reads>>
runVars   == <<pc, arg_preprocess, arg_results_url, keep_preprocessed_dir,
               dir_exists, archive, walk_todo, num_studies, num_images,
               ingested, limit_hit, file_size, session_id, n_attempts, tos_answers,
               net, exit_reason>>
vars == <<inputVars, pollVars, unVars, stVars, store, runVars>>

None == "None"
NoPath == <<>>

(***************************************************************************)
(* Strings                                                                 *)
(***************************************************************************)
SLASH == 47
ASCII_LIMIT == 128
TOKEN_LEN == 8

\* str.split('/')
RECURSIVE SplitFrom(_, _, _)
SplitFrom(s, i, cur) ==
    IF i > Len(s) THEN <<cur>>
    ELSE IF s[i] = SLASH THEN <<cur>> \o SplitFrom(s, i + 1, <<>>)
    ELSE SplitFrom(s, i + 1, Append(cur, s[i]))

Split(s) == SplitFrom(s, 1, <<>>)

\* '/'.join(parts)
RECURSIVE JoinSlash(_)
JoinSlash(parts) ==
    IF parts = <<>> THEN <<>>
    ELSE IF Len(parts) = 1 THEN parts[1]
    ELSE parts[1] \o <<SLASH>> \o JoinSlash(Tail(parts))

\* '/'.join(input_.split('/')[0:-1])
ParentOf(p) == JoinSlash(SubSeq(Split(p), 1, Len(Split(p)) - 1))

\* os.path.join(root, name) for a relative name
PathJoin(root, name) == root \o <<SLASH>> \o name

\* str.encode('ASCII') succeeds
IsAscii(s) == \A i \in 1..Len(s) : s[i] < ASCII_LIMIT

\* what create_hash yields in place of a token when encode() raises
UnicodeEncodeError == <<-1>>

\* hexdigest()[0:8]
create_hash(string) ==
    IF ~IsAscii(string) THEN UnicodeEncodeError
    ELSE SubSeq(sha[string], 1, TOKEN_LEN)

(***************************************************************************)
(* The input tree and os.walk                                              *)
(*                                                                         *)
(* A directory is [dirs, files]: dirs a sequence of [name, node], files a  *)
(* sequence of [name, dcm], dcm being the content of the file.             *)
(***************************************************************************)
Names(entries) == [i \in 1..Len(entries) |-> entries[i].name]

\* os.walk(top), top-down: one (root, dirs, files) entry per directory
RECURSIVE Walk(_, _)
RECURSIVE WalkDirs(_, _, _)
Walk(node, root) ==
    <<[root |-> root, dirs |-> Names(node.dirs), files |-> node.files]>>
        \o WalkDirs(node.dirs, root, 1)

WalkDirs(dirs, root, i) ==
    IF i > Len(dirs) THEN <<>>
    ELSE Walk(dirs[i].node, PathJoin(root, dirs[i].name)) \o WalkDirs(dirs, root, i + 1)

\* "Assume we are in a study folder when it only contains files"
IsStudyFolder(w) == Len(w.dirs) = 0 /\ Len(w.files) > 0



RECURSIVE SeqRange(_)
SeqRange(s) == IF s = <<>> THEN {} ELSE {Head(s)} \cup SeqRange(Tail(s))

(***************************************************************************)
(* utils.py: read_dicom                                                    *)
(*                                                                         *)
(* A file's content (dcm) is what pydicom reports of it: readable, the     *)
(* flat attributes (None when absent), for each nested access path how     *)
(* many of its steps resolve and the .value found at its end, whether the  *)
(* pixel data decodes and the shape of the decoded array.                  *)
(***************************************************************************)
MG_SOP  == "1.2.840.10008.5.1.4.1.1.1.2"
DBT_SOP == "1.2.840.10008.5.1.4.1.1.13.1.3"
\* an allow-list that also admits CT Image Storage
allowed_sop_uids_Wide == {MG_SOP, DBT_SOP, "1.2.840.10008.5.1.4.1.1.2"}
allowed_sop_uids == {MG_SOP, DBT_SOP}

dbt_fields ==
    [ViewPosition    |-> <<"0054,0220", "0", "0008,0104">>,
     ImageLaterality |-> <<"0019,108a", "0", "0019,1087">>,
     WindowWidth     |-> <<"5200,9229", "0", "0028,9132", "0", "0028,1051">>,
     WindowCenter    |-> <<"5200,9229", "0", "0028,9132", "0", "0028,1050">>]

DbtFieldNames == DOMAIN dbt_fields

\* str.upper() on the values BurnedInAnnotation takes here
Upper(v) == CASE v = "no" -> "NO" [] v = "No" -> "NO" [] v = "yes" -> "YES" [] OTHER -> v

CODE_TO_ACRONYM ==
    [p \in {"medio-lateral", "medio-lateral oblique", "latero-medial", "cranio-caudal"} |->
        CASE p = "medio-lateral" -> "ML"
          [] p = "medio-lateral oblique" -> "MLO"
          [] p = "latero-medial" -> "LM"
          [] p = "cranio-caudal" -> "CC"]

\* str.lower().strip() on the view phrases met here
LowerStrip(v) ==
    CASE v = " Craniocaudal" -> "craniocaudal"
      [] v = "Mediolateral Oblique " -> "mediolateral oblique"
      [] OTHER -> v

\* verbose_position_to_code: [raised, value]
verbose_position_to_code(string) ==
    IF string \in DOMAIN CODE_TO_ACRONYM THEN [raised |-> FALSE, value |-> CODE_TO_ACRONYM[string]]
    ELSE IF LowerStrip(string) = "mediolateral oblique" THEN [raised |-> FALSE, value |-> "MLO"]
    ELSE IF LowerStrip(string) = "craniocaudal" THEN [raised |-> FALSE, value |-> "CC"]
    ELSE [raised |-> TRUE, value |-> "Could not find view code match"]

\* nested_index raising only when the first step of the path fails
nested_index_FirstStep(ds, field) ==
    IF ds.nested[field].steps >= 1
    THEN [raised |-> FALSE, value |-> ds.nested[field].value]
    ELSE [raised |-> TRUE, value |-> "ValueError"]

\* nested_index(ds, path).value: ValueError unless every step of the path resolves
nested_index(ds, field) ==
    IF ds.nested[field].steps >= Len(dbt_fields[field])
    THEN [raised |-> FALSE, value |-> ds.nested[field].value]
    ELSE [raised |-> TRUE, value |-> "ValueError"]

\* Numbers are written in decimal ("2", "400"), so that every attribute value
\* is a string and '' can stand beside them.
NumVal(v) == CASE v = "0" -> 0 [] v = "1" -> 1 [] v = "2" -> 2 [] v = "3" -> 3 [] v = "4" -> 4

\* field_val[0] on the laterality values met here ('' raises IndexError)
FirstChar(v) == CASE v = "LEFT" -> "L" [] v = "RIGHT" -> "R" [] OTHER -> v

\* int(field_val) on the window values met here: a number, a decimal
\* number (DSfloat), an empty string, a MultiValue
IntOf(v) ==
    CASE v \in {"400", "2000"} -> [raised |-> FALSE, value |-> v]
      [] v = "400.0" -> [raised |-> FALSE, value |-> "400"]
      [] v = "[400, 500]" -> [raised |-> TRUE, value |-> "TypeError"]
      [] OTHER -> [raised |-> TRUE, value |-> "ValueError"]

\* the body of "for field in dicom_attributes" for one field:
\* [raised, value]; raised means the exception leaves read_dicom
FieldValue(ds, field, is_dbt) ==
    IF field \in DbtFieldNames /\ is_dbt
    THEN LET n == nested_index(ds, field)
         IN  IF n.raised THEN [raised |-> FALSE, value |-> ""]
             ELSE IF field = "ViewPosition" THEN verbose_position_to_code(n.value)
             ELSE IF field = "ImageLaterality"
                  THEN IF n.value = "" THEN [raised |-> TRUE, value |-> "IndexError"]
                       ELSE [raised |-> FALSE, value |-> FirstChar(n.value)]
             ELSE LET k == IntOf(n.value)
                  IN  IF k.raised /\ k.value = "ValueError"
                      THEN [raised |-> FALSE, value |-> ""]
                      ELSE k
    ELSE IF ds.flat[field] = None THEN [raised |-> FALSE, value |-> ""]
    ELSE [raised |-> FALSE, value |-> ds.flat[field]]

dicom_attributes ==
    <<"SOPClassUID", "ViewPosition", "ImageLaterality", "Manufacturer",
      "NumberOfFrames", "WindowWidth", "WindowCenter">>

\* map_manufacturer(str(metadata['Manufacturer'])).lower() in ['ge', 'hologic']
map_manufacturer(manufacturer) ==
    CASE manufacturer \in {"HOLOGIC, Inc.", "Lorad"} -> "hologic"
      [] manufacturer = "GE MEDICAL SYSTEMS" -> "ge"
      [] OTHER -> manufacturer

RawPixels(ds) == map_manufacturer(ds.flat.Manufacturer) \in {"ge", "hologic"}

\* the frame-count check, lines 127-134: the frame numbers to save, or a failure
FrameCountMismatch(num_frames, shape) == num_frames # "" /\ shape[1] # NumVal(num_frames)

FrameNumbers(num_frames) == IF num_frames = "" THEN {0} ELSE 0..(NumVal(num_frames) - 1)

Failed(error_, touched_) ==
    [raised |-> TRUE, error |-> error_, metadata |-> None, frames |-> {},
     pixels |-> touched_, windowed |-> FALSE]

\* read_dicom(dicom_path, preprocess_dir, study_path_hash):
\* raised/error, the metadata row returned, the frame files saved,
\* whether ds.pixel_array was read, whether apply_voi_lut was applied
read_dicom(ds, dicom_path, study_path_hash) ==
    IF ~ds.readable THEN Failed("InvalidDicomError", FALSE)
    ELSE IF ds.flat.SOPClassUID = None THEN Failed("AttributeError", FALSE)
    ELSE IF ds.flat.SOPClassUID \notin allowed_sop_uids THEN Failed("SOPClassUID incorrect", FALSE)
    ELSE IF ~(ds.BurnedInAnnotation # None /\ Upper(ds.BurnedInAnnotation) = "NO")
         THEN Failed("BurnedInAnnotation not found or != NO", FALSE)
    ELSE IF create_hash(dicom_path) = UnicodeEncodeError THEN Failed("UnicodeEncodeError", FALSE)
    ELSE
    LET is_dbt == ds.flat.SOPClassUID = DBT_SOP
        dcm_path_hash == create_hash(dicom_path)
        vals == [f \in SeqRange(dicom_attributes) |-> FieldValue(ds, f, is_dbt)]
        bad == {i \in 1..Len(dicom_attributes) : vals[dicom_attributes[i]].raised}
        row == [f \in SeqRange(dicom_attributes) |-> vals[f].value]
                 @@ [dcm_path |-> dcm_path_hash,
                     np_paths |-> <<study_path_hash, dcm_path_hash>>,
                     SOPInstanceUID |-> dcm_path_hash,
                     StudyInstanceUID |-> study_path_hash]
        num_frames == row.NumberOfFrames
    IN  IF bad # {}
        THEN Failed(vals[dicom_attributes[CHOOSE i \in bad : \A j \in bad : i <= j]].value, FALSE)
        ELSE IF ~ds.decodes THEN Failed("pixel data cannot be decoded", TRUE)
        ELSE IF FrameCountMismatch(num_frames, ds.shape)
             THEN Failed("NumberOfFrames and pixel data shape are inconsistent", TRUE)
        ELSE [raised |-> FALSE, error |-> "", metadata |-> row,
              frames |-> {<<study_path_hash, dcm_path_hash, n>> : n \in FrameNumbers(num_frames)},
              pixels |-> TRUE, windowed |-> ~RawPixels(ds)]

(***************************************************************************)
(* File contents met in the checks                                         *)
(***************************************************************************)
Valid2D ==
    [readable |-> TRUE,
     flat |-> [SOPClassUID |-> MG_SOP, ViewPosition |-> "CC", ImageLaterality |-> "L",
               Manufacturer |-> "HOLOGIC, Inc.", NumberOfFrames |-> None,
               WindowWidth |-> "400", WindowCenter |-> "2000"],
     BurnedInAnnotation |-> "NO",
     nested |-> [f \in DbtFieldNames |-> [steps |-> 0, value |-> ""]],
     decodes |-> TRUE,
     shape |-> <<3, 3>>]

ValidDbt ==
    [Valid2D EXCEPT !.flat.SOPClassUID = DBT_SOP, !.flat.NumberOfFrames = "2",
                    !.flat.ViewPosition = None, !.flat.ImageLaterality = None,
                    !.flat.WindowWidth = None, !.flat.WindowCenter = None,
                    !.nested = [ViewPosition    |-> [steps |-> 3, value |-> "cranio-caudal"],
                                ImageLaterality |-> [steps |-> 3, value |-> "L"],
                                WindowWidth     |-> [steps |-> 5, value |-> "400.0"],
                                WindowCenter    |-> [steps |-> 5, value |-> "2000"]],
                    !.shape = <<2, 3, 3>>]

NotADicom == [Valid2D EXCEPT !.readable = FALSE]

DcmSample ==
    {Valid2D, ValidDbt, NotADicom,
     [Valid2D EXCEPT !.flat.Manufacturer = "SIEMENS", !.BurnedInAnnotation = "no"],
     [Valid2D EXCEPT !.flat.NumberOfFrames = "1"],
     [Valid2D EXCEPT !.flat.SOPClassUID = "1.2.840.10008.5.1.4.1.1.2"],
     [Valid2D EXCEPT !.flat.SOPClassUID = None],
     [Valid2D EXCEPT !.BurnedInAnnotation = "YES"],
     [Valid2D EXCEPT !.BurnedInAnnotation = None],
     [Valid2D EXCEPT !.decodes = FALSE],
     [ValidDbt EXCEPT !.flat.NumberOfFrames = "3"],
     [ValidDbt EXCEPT !.nested.ViewPosition.value = "bogus view"],
     [ValidDbt EXCEPT !.nested.ImageLaterality.value = "LEFT", !.flat.Manufacturer = None],
     [ValidDbt EXCEPT !.nested.WindowWidth.steps = 2, !.nested.ImageLaterality.steps = 0],
     [ValidDbt EXCEPT !.nested.WindowWidth.value = ""],
     [ValidDbt EXCEPT !.nested.WindowCenter.value = "[400, 500]"],
     [ValidDbt EXCEPT !.nested.ImageLaterality.value = ""]}

(***************************************************************************)
(* utils.py: read_study                                                    *)
(***************************************************************************)
ListDir(node) ==
    node.files \o [i \in 1..Len(node.dirs) |-> [name |-> node.dirs[i].name, dcm |-> NotADicom]]

MetadataFile(study_path_hash) ==
    [study |-> study_path_hash, image |-> <<>>, file |-> <<"study_metadata.pkl", 0>>]

FrameFile(t) == [study |-> t[1], image |-> t[2], file |-> <<"frame", t[3]>>]

\* ReadStudyFile without the try/except of lines 156-160
ReadStudyFile_NoTry(study_path, entry, only_include, acc) ==
    LET dicom_path == PathJoin(study_path, entry.name)
    IN  IF only_include # NoPath /\ dicom_path # only_include THEN acc
        ELSE LET r == read_dicom(entry.dcm, dicom_path, create_hash(study_path))
             IN  IF r.raised
                 THEN [acc EXCEPT !.raised = TRUE,
                                  !.decoded = IF r.pixels THEN @ \cup {dicom_path} ELSE @]
                 ELSE [acc EXCEPT !.rows = Append(@, r.metadata),
                                  !.decoded = @ \cup {dicom_path},
                                  !.store = @ \cup {FrameFile(t) : t \in r.frames}]

\* one iteration of "for dicom in os.listdir(study_path)" on acc =
\* [raised, rows, store, skipped, decoded]
ReadStudyFile(study_path, entry, only_include, acc) ==
    LET dicom_path == PathJoin(study_path, entry.name)
    IN  IF only_include # NoPath /\ dicom_path # only_include THEN acc
        ELSE LET r == read_dicom(entry.dcm, dicom_path, create_hash(study_path))
             IN  IF r.raised
                 THEN [acc EXCEPT !.skipped = Append(@, [path |-> dicom_path, error |-> r.error]),
                                  !.decoded = IF r.pixels THEN @ \cup {dicom_path} ELSE @]
                 ELSE [acc EXCEPT !.rows = Append(@, r.metadata),
                                  !.decoded = @ \cup {dicom_path},
                                  !.store = @ \cup {FrameFile(t) : t \in r.frames}]

RECURSIVE ReadStudyLoop(_, _, _, _)
ReadStudyLoop(study_path, todo, only_include, acc) ==
    IF todo = <<>> \/ acc.raised THEN acc
    ELSE ReadStudyLoop(study_path, Tail(todo), only_include,
                       ReadStudyFile(study_path, Head(todo), only_include, acc))

\* lines 163-170: the table is pickled beside the frames and returned
ReadStudyPersist(study_path, acc) ==
    IF acc.raised THEN acc
    ELSE [acc EXCEPT !.store = @ \cup {MetadataFile(create_hash(study_path))}]

\* lines 146-148
ReadStudyBegin(study_path, store0) ==
    [raised |-> create_hash(study_path) = UnicodeEncodeError,
     rows |-> <<>>, store |-> store0, skipped |-> <<>>, decoded |-> {}]

\* read_study(study_path, preprocess_dir, only_include) over the directory's
\* entries, preprocess_dir holding store0
read_study(study_path, entries, only_include, store0) ==
    ReadStudyPersist(study_path,
        ReadStudyLoop(study_path, entries, only_include, ReadStudyBegin(study_path, store0)))

(***************************************************************************)
(* Bounds and samples of the checks                                        *)
(***************************************************************************)
MaxStudyFiles == 2

\* the first hexadecimal digits of sha256 digests: a decimal-looking one with
\* a leading zero, one that differs from it only after the eighth digit, one
\* with letters, a decimal-looking one without a leading zero, and two more
D1 == <<0, 5, 9, 7, 8, 8, 1, 1, 3>>
D2 == <<0, 5, 9, 7, 8, 8, 1, 1, 4>>
D3 == <<10, 1, 11, 2, 12, 3, 13, 4, 5>>
D4 == <<1, 2, 3, 4, 5, 6, 7, 8, 9>>
D5 == <<15, 15, 0, 0, 10, 10, 1, 1, 2>>
D6 == <<0, 0, 12, 0, 15, 15, 14, 14, 0>>
Digests == <<D3, D4, D1, D5, D6, D2>>

RootAscii == <<SLASH, 100>>
RootNonAscii == <<SLASH, 233>>

\* the name of the i-th entry of a directory: 'a', 'b', ...; with a
\* non-ASCII letter appended: 'aé', 'bé', ...
PosName(i) == <<96 + i>>
PosNameNonAscii(i) == <<96 + i, 233>>

EntryAt(i) ==
    {[name |-> PosName(i), dcm |-> d] : d \in DcmSample}
        \cup {[name |-> PosNameNonAscii(i), dcm |-> Valid2D]}

RECURSIVE Studies(_)
Studies(n) ==
    IF n = 0 THEN {<<>>}
    ELSE {Append(s, e) : s \in Studies(n - 1), e \in EntryAt(n)}

\* a digest for each path of one study folder, all different
StudySha(root, files) ==
    [p \in {q \in {root} \cup {PathJoin(root, files[i].name) : i \in 1..Len(files)} : IsAscii(q)} |->
        IF p = root THEN Digests[1]
        ELSE Digests[1 + CHOOSE i \in 1..Len(files) : PathJoin(root, files[i].name) = p]]

IdlePoll ==
    /\ poll_arg = 0 /\ poll_i = 0 /\ poll_max = 0 /\ poll_log = <<>> /\ poll_pc = "idle"

IdleUnhash ==
    /\ un_pc = "idle" /\ hash_map = <<>> /\ zip_study = <<>> /\ zip_dicom = <<>>
    /\ study_csv = [kind |-> "absent", rows |-> <<>>]
    /\ dicom_csv = [kind |-> "absent", rows |-> <<>>]
    /\ study_df = <<>> /\ dicom_df = <<>> /\ un_error = "none"

IdleStudy ==
    /\ st_pc = "idle" /\ st_todo = <<>> /\ st_only = NoPath
    /\ study_metadata = <<>> /\ st_skipped = <<>> /\ pixel_reads = {}

IdleRun ==
    /\ pc = "idle" /\ arg_preprocess = "none" /\ arg_results_url = FALSE
    /\ keep_preprocessed_dir = FALSE /\ dir_exists = FALSE /\ archive = FALSE
    /\ walk_todo = <<>> /\ num_studies = 0 /\ num_images = 0 /\ ingested = <<>>
    /\ limit_hit = NoPath /\ file_size = 0 /\ session_id = ""
    /\ n_attempts = 0 /\ tos_answers = <<>> /\ net = <<>> /\ exit_reason = ""

(***************************************************************************)
(* read_study, one step per directory entry                                *)
(***************************************************************************)
StudyPath == IF input_kind = "file" THEN ParentOf(input_) ELSE input_

StAcc ==
    [raised |-> FALSE, rows |-> study_metadata, store |-> store, skipped |-> st_skipped,
     decoded |-> pixel_reads]

StSet(acc, next_pc, todo) ==
    /\ st_pc' = (IF acc.raised THEN "raised" ELSE next_pc)
    /\ study_metadata' = acc.rows
    /\ st_skipped' = acc.skipped
    /\ pixel_reads' = acc.decoded
    /\ store' = acc.store
    /\ st_todo' = todo
    /\ UNCHANGED <<st_only, inputVars, pollVars, unVars, runVars>>

StudyBegin ==
    /\ st_pc = "start"
    /\ StSet(ReadStudyBegin(StudyPath, store), "loop", st_todo)

StudyFile ==
    /\ st_pc = "loop"
    /\ st_todo # <<>>
    /\ StSet(ReadStudyFile(StudyPath, Head(st_todo), st_only, StAcc), "loop", Tail(st_todo))

StudyReturn ==
    /\ st_pc = "loop"
    /\ st_todo = <<>>
    /\ StSet(ReadStudyPersist(StudyPath, StAcc), "returned", st_todo)

InitIngest ==
    /\ \E root \in {RootAscii, RootNonAscii}, n \in 1..MaxStudyFiles :
         \E files \in Studies(n), k \in 0..n :
            /\ tree = [dirs |-> <<>>, files |-> files]
            /\ input_kind = (IF k = 0 THEN "dir" ELSE "file")
            /\ input_ = (IF k = 0 THEN root ELSE PathJoin(root, files[k].name))
            /\ st_only = (IF k = 0 THEN NoPath ELSE PathJoin(root, files[k].name))
            /\ st_todo = ListDir(tree)
            /\ sha = StudySha(root, files)
    /\ st_pc = "start" /\ study_metadata = <<>> /\ st_skipped = <<>> /\ pixel_reads = {}
    /\ store = {}
    /\ IdlePoll /\ IdleUnhash /\ IdleRun

NextIngest == StudyBegin \/ StudyFile \/ StudyReturn

SpecIngest == InitIngest /\ [][NextIngest]_vars

(***************************************************************************)
(* Claims about read_study and read_dicom (SpecIngest)                     *)
(***************************************************************************)
\* the directory entries read_study has visited so far
StVisited == SubSeq(ListDir(tree), 1, Len(ListDir(tree)) - Len(st_todo))

StIncluded(e) == st_only = NoPath \/ PathJoin(StudyPath, e.name) = st_only

StOutcome(e) == read_dicom(e.dcm, PathJoin(StudyPath, e.name), create_hash(StudyPath))

StRaises(e) == StIncluded(e) /\ StOutcome(e).raised
StYields(e) == StIncluded(e) /\ ~StOutcome(e).raised

StEntryOf(path) ==
    CHOOSE e \in SeqRange(ListDir(tree)) : PathJoin(StudyPath, e.name) = path

\* C9: within read_study a file whose processing raises is skipped: it adds
\* no row, every other file is still processed (the rows are those of the
\* visited files that did not raise, in order), the loop is aborted by no
\* file, and on return the table has been persisted.
C9_FileErrorIsSkipped ==
    st_pc \in {"loop", "returned", "raised"} =>
        /\ (st_pc = "raised" => ~IsAscii(StudyPath))
        /\ (st_pc # "raised" =>
              LET ok  == SelectSeq(StVisited, StYields)
                  bad == SelectSeq(StVisited, StRaises)
              IN  /\ study_metadata = [i \in 1..Len(ok) |-> StOutcome(ok[i]).metadata]
                  /\ [i \in 1..Len(st_skipped) |-> st_skipped[i].path]
                        = [i \in 1..Len(bad) |-> PathJoin(StudyPath, bad[i].name)])
        /\ (st_pc = "returned" =>
              /\ st_todo = <<>>
              /\ MetadataFile(create_hash(StudyPath)) \in store)

\* a study returned although its first file raised and a later one was read
C9_Witness ==
    /\ st_pc = "returned"
    /\ Len(ListDir(tree)) >= 2
    /\ StRaises(ListDir(tree)[1])
    /\ Len(study_metadata) >= 1
    /\ Len(st_skipped) >= 1

FrameError == "NumberOfFrames and pixel data shape are inconsistent"

DeclaresMultipleFrames(ds) == ds.flat.NumberOfFrames # None /\ NumVal(ds.flat.NumberOfFrames) > 1

DeclaredDiffers(ds) ==
    ds.flat.NumberOfFrames # None /\ NumVal(ds.flat.NumberOfFrames) # ds.shape[1]

FramesOf(e) ==
    {f \in store : f.image = create_hash(PathJoin(StudyPath, e.name)) /\ f.file[1] = "frame"}

\* C10: an image is rejected for its frame count exactly when it declares
\* multiple frames and the declared NumberOfFrames differs from the leading
\* dimension of the decoded array; a rejected image has no row and no frame in
\* the store; an image declaring no frame count or a matching one is persisted
\* with one frame_<n> per frame.
C10_FrameCountInvariant ==
    st_pc = "returned" =>
        /\ \A i \in 1..Len(st_skipped) :
            LET ds == StEntryOf(st_skipped[i].path).dcm
            IN  /\ st_skipped[i].error = FrameError =>
                     DeclaresMultipleFrames(ds) /\ DeclaredDiffers(ds)
                /\ FramesOf(StEntryOf(st_skipped[i].path)) = {}
        /\ \A i \in 1..Len(study_metadata) :
            LET row == study_metadata[i]
                n == IF row.NumberOfFrames = "" THEN 1 ELSE NumVal(row.NumberOfFrames)
            IN  {f.file : f \in {g \in store : g.image = row.SOPInstanceUID}}
                    = {<<"frame", k>> : k \in 0..(n - 1)}

\* the two checks of the claim, read off the file's content
SopAllowed(ds) ==
    ds.flat.SOPClassUID \in {"1.2.840.10008.5.1.4.1.1.1.2", "1.2.840.10008.5.1.4.1.1.13.1.3"}

BurnedInNo(ds) == ds.BurnedInAnnotation \in {"NO", "No", "nO", "no"}

RowsOf(e) ==
    {i \in 1..Len(study_metadata) :
        study_metadata[i].dcm_path = create_hash(PathJoin(StudyPath, e.name))}

\* C11: for every file handed to read_dicom, pixel data is read or persisted
\* only after both checks passed (SOPClassUID is one of the two allowed
\* identifiers, BurnedInAnnotation is present and equals 'NO' in any case); a
\* file failing either check has no frame in the store and no metadata row.
C11_PixelsOnlyAfterChecks ==
    /\ \A e \in SeqRange(StVisited) :
         (StIncluded(e) /\ e.dcm.readable /\ ~(SopAllowed(e.dcm) /\ BurnedInNo(e.dcm))) =>
            /\ PathJoin(StudyPath, e.name) \notin pixel_reads
            /\ FramesOf(e) = {}
            /\ RowsOf(e) = {}
    /\ \A p \in pixel_reads : SopAllowed(StEntryOf(p).dcm) /\ BurnedInNo(StEntryOf(p).dcm)
    /\ \A f \in store :
         f.file[1] = "frame" =>
            \E e \in SeqRange(StVisited) :
                /\ f.image = create_hash(PathJoin(StudyPath, e.name))
                /\ SopAllowed(e.dcm) /\ BurnedInNo(e.dcm)

\* a study returned in which one file failed a check and was left untouched
\* while the pixel data of another, passing with a lower-case 'no', was saved
C11_Witness ==
    /\ st_pc = "returned"
    /\ \E e \in SeqRange(StVisited) :
         /\ StIncluded(e) /\ e.dcm.readable /\ SopAllowed(e.dcm) /\ ~BurnedInNo(e.dcm)
         /\ \E i \in 1..Len(st_skipped) : st_skipped[i].path = PathJoin(StudyPath, e.name)
    /\ \E e \in SeqRange(StVisited) :
         /\ e.dcm.BurnedInAnnotation = "no"
         /\ PathJoin(StudyPath, e.name) \in pixel_reads
         /\ FramesOf(e) # {}

\* a tomosynthesis file of the study whose metadata read_dicom parses
DbtParsed(e) ==
    /\ StIncluded(e) /\ e.dcm.readable
    /\ e.dcm.flat.SOPClassUID = "1.2.840.10008.5.1.4.1.1.13.1.3"
    /\ BurnedInNo(e.dcm)
    /\ IsAscii(PathJoin(StudyPath, e.name))

NestedFields == {"ViewPosition", "ImageLaterality", "WindowWidth", "WindowCenter"}

PathResolves(ds, f) == ds.nested[f].steps = Len(dbt_fields[f])

\* the value derived from a nested lookup result: the view acronym, the first
\* letter of the laterality, the window value as an integer; "?" when the
\* result has none
DerivedFromNested(f, v) ==
    CASE f = "ViewPosition" /\ v = "cranio-caudal" -> "CC"
      [] f = "ImageLaterality" /\ v \in {"L", "LEFT"} -> "L"
      [] f \in {"WindowWidth", "WindowCenter"} /\ v \in {"400", "400.0"} -> "400"
      [] f \in {"WindowWidth", "WindowCenter"} /\ v = "2000" -> "2000"
      [] OTHER -> "?"

FieldErrors == {"Could not find view code match", "IndexError", "TypeError"}

SkippedWith(e) ==
    {st_skipped[i].error :
        i \in {j \in 1..Len(st_skipped) : st_skipped[j].path = PathJoin(StudyPath, e.name)}}

\* C13 as stated: for a tomosynthesis record and each of the four fields, when
\* every step of the nested path resolves the metadata value is the one
\* derived from the lookup result, when a step fails it is '', and the image
\* is not rejected over these fields.
C13_NestedFallback ==
    \A e \in SeqRange(StVisited) :
        DbtParsed(e) =>
            /\ SkippedWith(e) \cap FieldErrors = {}
            /\ \A i \in RowsOf(e), f \in NestedFields :
                 study_metadata[i][f] =
                    IF PathResolves(e.dcm, f)
                    THEN DerivedFromNested(f, e.dcm.nested[f].value)
                    ELSE ""

\* the lookup results whose derivation leaves read_dicom with an exception
DerivationRaises(f, v) ==
    \/ f = "ViewPosition" /\ DerivedFromNested(f, v) = "?"
    \/ f = "ImageLaterality" /\ v = ""
    \/ f \in {"WindowWidth", "WindowCenter"} /\ v = "[400, 500]"

\* C13 amended: when every step resolves and the derivation succeeds the
\* metadata value is the derived one; a resolved view phrase without a code,
\* an empty laterality or a multi-valued window rejects the image; a window
\* value on which int() raises ValueError gives ''; when a step fails the
\* value is '' and the image is not rejected over it.
C13_NestedFallbackWhereDerivable ==
    \A e \in SeqRange(StVisited) :
        DbtParsed(e) =>
            /\ (SkippedWith(e) \cap FieldErrors # {}) <=>
                  \E f \in NestedFields :
                      PathResolves(e.dcm, f) /\ DerivationRaises(f, e.dcm.nested[f].value)
            /\ \A i \in RowsOf(e), f \in NestedFields :
                 study_metadata[i][f] =
                    IF /\ PathResolves(e.dcm, f)
                       /\ DerivedFromNested(f, e.dcm.nested[f].value) # "?"
                    THEN DerivedFromNested(f, e.dcm.nested[f].value)
                    ELSE ""

\* a tomosynthesis image was kept with '' for a field whose path stops half
\* way and the derived value for a field whose path resolves
C13_Witness ==
    /\ st_pc = "returned"
    /\ \E e \in SeqRange(StVisited) :
         /\ DbtParsed(e)
         /\ e.dcm.nested.WindowWidth.steps = 2
         /\ PathResolves(e.dcm, "ViewPosition")
         /\ \E i \in RowsOf(e) :
              /\ study_metadata[i].WindowWidth = ""
              /\ study_metadata[i].ViewPosition = "CC"

(***************************************************************************)
(* deploy_evaluation.py: download_remote_results                           *)
(***************************************************************************)
MaxAttemptsArg == 2
MaxGets == 5
DEFAULT_MAX_ATTEMPTS == 100
StatusCodes == {200, 404, 500}

\* line 84: while i < max_attempts
PollLoopGuard == poll_i < poll_max

\* lines 92-94, after an attempt whose status is not 200: the new (i, max_attempts)
PollRetry(i, max_attempts) == <<i, max_attempts + 1>>

\* one pass through the loop body: a single blocking GET of expected_url
PollGet(status) ==
    /\ poll_pc = "loop"
    /\ PollLoopGuard
    /\ Len(poll_log) < MaxGets
    /\ poll_log' = Append(poll_log, status)
    /\ IF status = 200
       THEN /\ poll_pc' = "returned_file"
            /\ UNCHANGED <<poll_i, poll_max>>
       ELSE /\ poll_pc' = "loop"
            /\ poll_i' = PollRetry(poll_i, poll_max)[1]
            /\ poll_max' = PollRetry(poll_i, poll_max)[2]
    /\ UNCHANGED poll_arg

\* lines 95-96: the loop condition is false, return None
PollGiveUp ==
    /\ poll_pc = "loop"
    /\ ~PollLoopGuard
    /\ poll_pc' = "returned_none"
    /\ UNCHANGED <<poll_arg, poll_i, poll_max, poll_log>>

PollAttempt == 
    /\ \E status \in StatusCodes : PollGet(status)
    /\ UNCHANGED <<inputVars, unVars, stVars, store, runVars>>

PollTimeout ==
    /\ PollGiveUp
    /\ UNCHANGED <<inputVars, unVars, stVars, store, runVars>>

IdleInput ==
    /\ input_ = RootAscii /\ input_kind = "dir"
    /\ tree = [dirs |-> <<>>, files |-> <<>>]
    /\ sha = <<>>

InitPoll ==
    /\ poll_arg \in 0..MaxAttemptsArg
    /\ poll_i = 0
    /\ poll_max = poll_arg
    /\ poll_log = <<>>
    /\ poll_pc = "loop"
    /\ store = {}
    /\ IdleInput /\ IdleUnhash /\ IdleStudy /\ IdleRun

NextPoll == PollAttempt \/ PollTimeout

SpecPoll == InitPoll /\ [][NextPoll]_vars

\* C1: download_remote_results makes at most max_attempts GET attempts, and
\* when none of them returned 200 it has returned None by then.
C1_AttemptCeiling ==
    /\ Len(poll_log) <= poll_arg
    /\ (Len(poll_log) = poll_arg /\ (\A k \in 1..Len(poll_log) : poll_log[k] # 200)
            => poll_pc = "returned_none" \/ ENABLED PollTimeout)

(***************************************************************************)
(* deploy_evaluation.py, lines 194-219: populating preprocess_dir          *)
(***************************************************************************)
MAX_STUDIES == 2
MAX_IMAGES == 3

\* the state of the walk: counters, the store, the read_study calls made
\* ([study, rows]), the walk entry at which the limit broke the loop, and
\* whether an exception left the loop
NoIngest(store0) ==
    [num_studies |-> 0, num_images |-> 0, store |-> store0, ingested |-> <<>>,
     limit_hit |-> NoPath, raised |-> FALSE]

\* line 209
LimitExceeded(num_studies_, num_images_, num_images_preview) ==
    num_studies_ > MAX_STUDIES \/ (num_images_ + num_images_preview) > MAX_IMAGES

\* the loop body without the limit check of lines 208-211
WalkStep_NoLimit(w, st) ==
    IF ~IsStudyFolder(w) THEN st
    ELSE LET counted == [st EXCEPT !.num_studies = @ + 1]
             r == read_study(w.root, w.files, NoPath, counted.store)
         IN  IF r.raised THEN [counted EXCEPT !.raised = TRUE]
             ELSE [counted EXCEPT
                     !.store = r.store,
                     !.num_images = @ + Len(r.rows),
                     !.ingested = Append(@, [study |-> w.root, rows |-> r.rows])]

\* lines 203-216: the loop body for one os.walk entry
WalkStep(w, st) ==
    IF ~IsStudyFolder(w) THEN st
    ELSE LET counted == [st EXCEPT !.num_studies = @ + 1]
         IN  IF LimitExceeded(counted.num_studies, counted.num_images, Len(w.files))
             THEN [counted EXCEPT !.limit_hit = w.root]
             ELSE LET r == read_study(w.root, w.files, NoPath, counted.store)
                  IN  IF r.raised THEN [counted EXCEPT !.raised = TRUE]
                      ELSE [counted EXCEPT
                              !.store = r.store,
                              !.num_images = @ + Len(r.rows),
                              !.ingested = Append(@, [study |-> w.root, rows |-> r.rows])]

RECURSIVE WalkLoop(_, _)
WalkLoop(todo, st) ==
    IF todo = <<>> \/ st.raised \/ st.limit_hit # NoPath THEN st
    ELSE WalkLoop(Tail(todo), WalkStep(Head(todo), st))

\* lines 195-199: a single input file, its parent folder read as the study
IngestFile(input, parent, store0) ==
    LET root == ParentOf(input)
        r == read_study(root, ListDir(parent), input, store0)
    IN  IF r.raised THEN [NoIngest(store0) EXCEPT !.raised = TRUE]
        ELSE [NoIngest(store0) EXCEPT
                !.store = r.store,
                !.num_images = Len(r.rows),
                !.ingested = <<[study |-> root, rows |-> r.rows]>>,
                !.raised = Len(r.rows) > 1]

\* lines 194-219 as a whole
Ingest(kind, input, node, store0) ==
    IF kind = "file" THEN IngestFile(input, node, store0)
    ELSE IF kind = "dir" THEN WalkLoop(Walk(node, input), NoIngest(store0))
    ELSE [NoIngest(store0) EXCEPT !.raised = TRUE]

(***************************************************************************)
(* deploy_evaluation.py: unhash_results                                    *)
(***************************************************************************)
\* the paths lines 109-119 hash, in order
RECURSIVE StudyFolderPaths(_)
StudyFolderPaths(walk) ==
    IF walk = <<>> THEN <<>>
    ELSE (IF IsStudyFolder(Head(walk))
          THEN <<Head(walk).root>>
                 \o [i \in 1..Len(Head(walk).files) |->
                        PathJoin(Head(walk).root, Head(walk).files[i].name)]
          ELSE <<>>) \o StudyFolderPaths(Tail(walk))

HashedPaths(kind, input, node) ==
    IF kind = "file" THEN <<ParentOf(input), input>>
    ELSE IF kind = "dir" THEN StudyFolderPaths(Walk(node, input))
    ELSE <<>>

\* hash_map[create_hash(p)] = p for each path in turn
RECURSIVE HashAll(_, _)
HashAll(paths, m) ==
    IF paths = <<>> THEN [raised |-> FALSE, map |-> m]
    ELSE IF create_hash(Head(paths)) = UnicodeEncodeError THEN [raised |-> TRUE, map |-> m]
    ELSE HashAll(Tail(paths), (create_hash(Head(paths)) :> Head(paths)) @@ m)

\* lines 107-119
BuildHashMap(kind, input, node) == HashAll(HashedPaths(kind, input, node), <<>>)

\* pd.read_csv followed by astype(str) on a column of tokens: a column whose
\* every value reads as a decimal integer is parsed as integers, and each
\* comes back written without its leading zeros; any other column keeps its
\* strings. (Tokens that read as floats, digits around one 'e', are not among
\* the digests of the checks.)
IsDecimal(t) == \A i \in 1..Len(t) : t[i] <= 9

RECURSIVE StripZeros(_)
StripZeros(t) == IF Len(t) > 1 /\ t[1] = 0 THEN StripZeros(Tail(t)) ELSE t

ReadCsvTokens(col) ==
    IF col # <<>> /\ \A i \in 1..Len(col) : IsDecimal(col[i])
    THEN [i \in 1..Len(col) |-> StripZeros(col[i])]
    ELSE col

\* hash_map[key]: KeyError on a miss
LookupDefault(m, key) ==
    IF key \in DOMAIN m THEN [raised |-> FALSE, value |-> m[key]]
    ELSE [raised |-> FALSE, value |-> <<>>]

Lookup(m, key) ==
    IF key \in DOMAIN m THEN [raised |-> FALSE, value |-> m[key]]
    ELSE [raised |-> TRUE, value |-> <<>>]

\* lines 129-132: the study table as read back, study_path = ''
ReadStudyCsv(rows) ==
    LET uid == ReadCsvTokens([i \in 1..Len(rows) |-> rows[i].StudyInstanceUID])
    IN  [i \in 1..Len(rows) |->
            [StudyInstanceUID |-> uid[i], score |-> rows[i].score, study_path |-> <<>>]]

\* lines 138-144
ReadDicomCsv(rows) ==
    LET uid == ReadCsvTokens([i \in 1..Len(rows) |-> rows[i].StudyInstanceUID])
        sop == ReadCsvTokens([i \in 1..Len(rows) |-> rows[i].SOPInstanceUID])
    IN  [i \in 1..Len(rows) |->
            [StudyInstanceUID |-> uid[i], SOPInstanceUID |-> sop[i], box |-> rows[i].box,
             study_path |-> <<>>, file_path |-> <<>>]]

\* lines 133-134: rows are substituted in order until a lookup misses
RECURSIVE SubstituteStudy(_, _, _)
SubstituteStudy(df, m, idx) ==
    IF idx > Len(df) THEN [raised |-> FALSE, df |-> df]
    ELSE LET v == Lookup(m, df[idx].StudyInstanceUID)
         IN  IF v.raised THEN [raised |-> TRUE, df |-> df]
             ELSE SubstituteStudy([df EXCEPT ![idx].study_path = v.value], m, idx + 1)

\* lines 145-147
RECURSIVE SubstituteDicom(_, _, _)
SubstituteDicom(df, m, idx) ==
    IF idx > Len(df) THEN [raised |-> FALSE, df |-> df]
    ELSE LET v == Lookup(m, df[idx].StudyInstanceUID)
             w == Lookup(m, df[idx].SOPInstanceUID)
         IN  IF v.raised THEN [raised |-> TRUE, df |-> df]
             ELSE IF w.raised
                  THEN [raised |-> TRUE, df |-> [df EXCEPT ![idx].study_path = v.value]]
             ELSE SubstituteDicom([df EXCEPT ![idx].study_path = v.value,
                                             ![idx].file_path = w.value], m, idx + 1)

\* line 149 and line 151: the projections
ProjectStudy(df) == [i \in 1..Len(df) |-> [study_path |-> df[i].study_path, score |-> df[i].score]]
ProjectDicom(df) == [i \in 1..Len(df) |-> [file_path |-> df[i].file_path, box |-> df[i].box]]

(***************************************************************************)
(* Input trees and digests of the reconciliation checks                    *)
(***************************************************************************)
MaxStudyRows == 2
MaxDicomRows == 1

WrongSop == [Valid2D EXCEPT !.flat.SOPClassUID = "1.2.840.10008.5.1.4.1.1.2"]

Files(kinds) == [i \in 1..Len(kinds) |-> [name |-> PosName(i), dcm |-> kinds[i]]]
StudyDir(files) == [dirs |-> <<>>, files |-> files]
DirName(i) == <<114 + i>>
Forest(studies) ==
    [dirs |-> [i \in 1..Len(studies) |-> [name |-> DirName(i), node |-> StudyDir(studies[i])]],
     files |-> <<>>]

UnInputs ==
    {[kind |-> "dir", input |-> RootAscii, node |-> StudyDir(Files(<<Valid2D>>))],
     [kind |-> "dir", input |-> RootAscii, node |-> Forest(<<Files(<<Valid2D, WrongSop>>)>>)],
     [kind |-> "dir", input |-> RootAscii, node |-> Forest(<<Files(<<Valid2D>>), Files(<<ValidDbt>>)>>)],
     [kind |-> "dir", input |-> RootAscii,
      node |-> Forest(<<Files(<<Valid2D, Valid2D>>), Files(<<Valid2D, Valid2D>>)>>)],
     [kind |-> "dir", input |-> RootAscii,
      node |-> StudyDir(<<[name |-> PosName(1), dcm |-> Valid2D],
                          [name |-> PosNameNonAscii(2), dcm |-> Valid2D]>>)],
     [kind |-> "dir", input |-> RootAscii,
      node |-> [dirs |-> <<[name |-> DirName(1), node |-> StudyDir(Files(<<Valid2D>>))]>>,
                files |-> Files(<<Valid2D>>)]],
     [kind |-> "file", input |-> PathJoin(RootAscii, PosName(1)),
      node |-> StudyDir(Files(<<Valid2D, Valid2D>>))],
     [kind |-> "file", input |-> PathJoin(RootNonAscii, PosName(1)),
      node |-> StudyDir(Files(<<Valid2D>>))]}

\* every folder and file under the input, in walk order
RECURSIVE WalkAllPaths(_)
WalkAllPaths(walk) ==
    IF walk = <<>> THEN <<>>
    ELSE <<Head(walk).root>>
           \o [i \in 1..Len(Head(walk).files) |-> PathJoin(Head(walk).root, Head(walk).files[i].name)]
           \o WalkAllPaths(Tail(walk))

InputPaths(inp) ==
    WalkAllPaths(Walk(inp.node, IF inp.kind = "file" THEN ParentOf(inp.input) ELSE inp.input))

Assignments ==
    {<<D3, D5, D6, D4, D1, D2, D3>>,
     <<D1, D4, D3, D5, D6, D2, D3>>,
     <<D3, D1, D2, D5, D6, D4, D4>>,
     <<D4, D1, D3, D5, D6, D2, D5>>}

\* the digest of the k-th path is the k-th digest of the assignment
ShaOf(paths, a) ==
    [p \in {q \in SeqRange(paths) : IsAscii(q)} |->
        a[CHOOSE k \in 1..Len(paths) : paths[k] = p]]

Foreign == <<13, 14, 10, 13, 11, 14, 14, 15>>

RECURSIVE SeqsUpTo(_, _)
SeqsUpTo(S, n) ==
    IF n = 0 THEN {<<>>}
    ELSE SeqsUpTo(S, n - 1) \cup {Append(q, x) : q \in {r \in SeqsUpTo(S, n - 1) : Len(r) = n - 1}, x \in S}

\* the tokens the server can have seen for the study folders and for the files
StudyTokens ==
    LET studies == IF input_kind = "file" THEN {ParentOf(input_)}
                   ELSE {w.root : w \in {x \in SeqRange(Walk(tree, input_)) : IsStudyFolder(x)}}
    IN  {create_hash(q) : q \in {r \in studies : IsAscii(r)}}

FileTokens ==
    LET hp == SeqRange(HashedPaths(input_kind, input_, tree))
        studies == IF input_kind = "file" THEN {ParentOf(input_)}
                   ELSE {w.root : w \in {x \in SeqRange(Walk(tree, input_)) : IsStudyFolder(x)}}
    IN  {create_hash(q) : q \in {r \in hp \ studies : IsAscii(r)}}

StudyTables ==
    {[i \in 1..Len(q) |-> [StudyInstanceUID |-> q[i], score |-> i]] :
        q \in SeqsUpTo(StudyTokens \cup {Foreign}, MaxStudyRows)}

DicomTables ==
    {[i \in 1..Len(q) |-> [StudyInstanceUID |-> q[i][1], SOPInstanceUID |-> q[i][2], box |-> i]] :
        q \in SeqsUpTo((StudyTokens \cup {Foreign}) \X (FileTokens \cup {Foreign}), MaxDicomRows)}

(***************************************************************************)
(* Ingest followed by unhash_results, one step per block of the function   *)
(***************************************************************************)
UnFrame == UNCHANGED <<inputVars, pollVars, stVars, pc, arg_preprocess, arg_results_url,
                       keep_preprocessed_dir, dir_exists, archive, walk_todo, file_size,
                       session_id, n_attempts, tos_answers, net, exit_reason>>

\* lines 194-219 of the run that uploaded the tree
UnIngest ==
    /\ un_pc = "ingest"
    /\ LET st == Ingest(input_kind, input_, tree, store)
       IN  /\ store' = st.store
           /\ ingested' = st.ingested
           /\ num_studies' = st.num_studies
           /\ num_images' = st.num_images
           /\ limit_hit' = st.limit_hit
           /\ un_pc' = (IF st.raised THEN "aborted" ELSE "map")
    /\ UNCHANGED <<hash_map, zip_study, zip_dicom, study_csv, dicom_csv, study_df, dicom_df, un_error>>
    /\ UnFrame

UnKeep == UNCHANGED <<store, ingested, num_studies, num_images, limit_hit>>

\* lines 107-119
UnMap ==
    /\ un_pc = "map"
    /\ LET r == BuildHashMap(input_kind, input_, tree)
       IN  /\ hash_map' = r.map
           /\ un_pc' = (IF r.raised THEN "raised" ELSE "extract")
           /\ un_error' = (IF r.raised THEN "UnicodeEncodeError" ELSE un_error)
    /\ UNCHANGED <<zip_study, zip_dicom, study_csv, dicom_csv, study_df, dicom_df>>
    /\ UnKeep /\ UnFrame

\* lines 121-125: the archive's two tables are extracted to their paths
UnExtract ==
    /\ un_pc = "extract"
    /\ \E st \in StudyTables, dt \in DicomTables :
         /\ zip_study' = st
         /\ zip_dicom' = dt
         /\ study_csv' = [kind |-> "tokens", rows |-> st]
         /\ dicom_csv' = [kind |-> "tokens", rows |-> dt]
    /\ un_pc' = "study"
    /\ UNCHANGED <<hash_map, study_df, dicom_df, un_error>>
    /\ UnKeep /\ UnFrame

\* lines 127-134
UnStudy ==
    /\ un_pc = "study"
    /\ LET r == SubstituteStudy(ReadStudyCsv(study_csv.rows), hash_map, 1)
       IN  /\ study_df' = r.df
           /\ un_pc' = (IF r.raised THEN "raised" ELSE "dicom")
           /\ un_error' = (IF r.raised THEN "KeyError" ELSE un_error)
    /\ UNCHANGED <<hash_map, zip_study, zip_dicom, study_csv, dicom_csv, dicom_df>>
    /\ UnKeep /\ UnFrame

\* lines 136-147
UnDicom ==
    /\ un_pc = "dicom"
    /\ LET r == SubstituteDicom(ReadDicomCsv(dicom_csv.rows), hash_map, 1)
       IN  /\ dicom_df' = r.df
           /\ un_pc' = (IF r.raised THEN "raised" ELSE "persist")
           /\ un_error' = (IF r.raised THEN "KeyError" ELSE un_error)
    /\ UNCHANGED <<hash_map, zip_study, zip_dicom, study_csv, dicom_csv, study_df>>
    /\ UnKeep /\ UnFrame

\* lines 149-153
UnPersist ==
    /\ un_pc = "persist"
    /\ study_csv' = [kind |-> "paths", rows |-> ProjectStudy(study_df)]
    /\ dicom_csv' = [kind |-> "paths", rows |-> ProjectDicom(dicom_df)]
    /\ un_pc' = "returned"
    /\ UNCHANGED <<hash_map, zip_study, zip_dicom, study_df, dicom_df, un_error>>
    /\ UnKeep /\ UnFrame

InitUnhash ==
    /\ \E inp \in UnInputs, a \in Assignments :
         /\ input_ = inp.input
         /\ input_kind = inp.kind
         /\ tree = inp.node
         /\ sha = ShaOf(InputPaths(inp), a)
    /\ IdlePoll /\ IdleStudy /\ IdleRun
    /\ store = {}
    /\ un_pc = "ingest" /\ hash_map = <<>> /\ zip_study = <<>> /\ zip_dicom = <<>>
    /\ study_csv = [kind |-> "absent", rows |-> <<>>]
    /\ dicom_csv = [kind |-> "absent", rows |-> <<>>]
    /\ study_df = <<>> /\ dicom_df = <<>> /\ un_error = "none"

NextUnhash == UnIngest \/ UnMap \/ UnExtract \/ UnStudy \/ UnDicom \/ UnPersist

SpecUnhash == InitUnhash /\ [][NextUnhash]_vars

(***************************************************************************)
(* Claims about unhash_results and create_hash (SpecUnhash)                *)
(***************************************************************************)
UnHashed == SeqRange(HashedPaths(input_kind, input_, tree))

StudyMiss(rows) == \E i \in 1..Len(rows) : rows[i].StudyInstanceUID \notin DOMAIN hash_map
SopMiss(rows) == \E i \in 1..Len(rows) : rows[i].SOPInstanceUID \notin DOMAIN hash_map

\* a row of one of the two result tables carries a token that is no key of the map
HasMiss == StudyMiss(zip_study) \/ StudyMiss(zip_dicom) \/ SopMiss(zip_dicom)

\* C3 as stated: with such a row unhash_results raises and neither result
\* table file is left at its output path.
C3_MissLeavesNoFile ==
    (HasMiss /\ un_pc \in {"raised", "returned"}) =>
        /\ un_pc = "raised"
        /\ study_csv.kind = "absent"
        /\ dicom_csv.kind = "absent"

\* C3 amended: with such a row unhash_results raises KeyError before it
\* rewrites either table: a miss in the study table raises in the study
\* loop, nothing path-substituted is ever persisted, and the files at the two
\* output paths stay the token-keyed tables as extracted.
C3_MissIsFatal ==
    HasMiss =>
        /\ un_pc \in {"study", "dicom", "raised"}
        /\ (un_pc = "dicom" => ~StudyMiss(zip_study))
        /\ (un_pc = "raised" => un_error = "KeyError")
        /\ study_csv = [kind |-> "tokens", rows |-> zip_study]
        /\ dicom_csv = [kind |-> "tokens", rows |-> zip_dicom]

\* the second study row missed after the first had been substituted in memory
C3_Witness ==
    /\ un_pc = "raised" /\ un_error = "KeyError" /\ HasMiss
    /\ Len(study_df) = 2
    /\ study_df[1].study_path # <<>>
    /\ study_df[2].study_path = <<>>
    /\ study_csv.kind = "tokens"

\* the hashed paths are ASCII and no two of them share a token
DistinctTokens ==
    /\ \A q \in UnHashed : IsAscii(q)
    /\ \A q, r \in UnHashed : create_hash(q) = create_hash(r) => q = r

PathOfToken(t) == CHOOSE q \in UnHashed : create_hash(q) = t

KeyedByPathTokens ==
    LET toks == {create_hash(q) : q \in UnHashed}
    IN  /\ \A i \in 1..Len(zip_study) : zip_study[i].StudyInstanceUID \in toks
        /\ \A i \in 1..Len(zip_dicom) :
              zip_dicom[i].StudyInstanceUID \in toks /\ zip_dicom[i].SOPInstanceUID \in toks

\* C4: for a tree whose paths have pairwise distinct tokens and tables keyed
\* by tokens of those paths, unhash_results returns, and writes one row per
\* input row, in order, carrying the path that hashes to the row's token.
C4_RoundTrip ==
    (DistinctTokens /\ KeyedByPathTokens /\ un_pc \in {"raised", "returned"}) =>
        /\ un_pc = "returned"
        /\ study_csv.rows =
             [i \in 1..Len(zip_study) |->
                 [study_path |-> PathOfToken(zip_study[i].StudyInstanceUID),
                  score |-> zip_study[i].score]]
        /\ dicom_csv.rows =
             [i \in 1..Len(zip_dicom) |->
                 [file_path |-> PathOfToken(zip_dicom[i].SOPInstanceUID),
                  box |-> zip_dicom[i].box]]

\* the files of an ingested study folder that yielded a row, in order
RowPaths(study) ==
    LET entries == IF input_kind = "file" THEN ListDir(tree)
                   ELSE (CHOOSE w \in SeqRange(Walk(tree, input_)) : w.root = study).files
        only == IF input_kind = "file" THEN input_ ELSE NoPath
        Yields(e) == /\ (only = NoPath \/ PathJoin(study, e.name) = only)
                     /\ ~read_dicom(e.dcm, PathJoin(study, e.name), create_hash(study)).raised
        ok == SelectSeq(entries, Yields)
    IN  [i \in 1..Len(ok) |-> PathJoin(study, ok[i].name)]

\* C5: once ingest ran to completion, building the map over the same root
\* does not raise, and the map holds every StudyInstanceUID and
\* SOPInstanceUID of the ingested rows, mapped to the path it came from.
C5_MapCoversIngest ==
    un_pc \in {"extract", "study", "dicom", "persist", "returned", "raised"} =>
        /\ un_error # "UnicodeEncodeError"
        /\ \A k \in 1..Len(ingested) :
             LET paths == RowPaths(ingested[k].study)
             IN  \A i \in 1..Len(ingested[k].rows) :
                   LET row == ingested[k].rows[i]
                   IN  /\ row.StudyInstanceUID \in DOMAIN hash_map
                       /\ hash_map[row.StudyInstanceUID] = ingested[k].study
                       /\ row.SOPInstanceUID \in DOMAIN hash_map
                       /\ hash_map[row.SOPInstanceUID] = paths[i]

IsToken(t) == Len(t) = TOKEN_LEN /\ \A i \in 1..Len(t) : t[i] \in 0..15

\* C6: create_hash returns an 8-character hexadecimal token for every path
\* string it is handed, without raising.
C6_CreateHashTotal ==
    un_pc # "ingest" => \A q \in UnHashed : IsToken(create_hash(q))

(***************************************************************************)
(* deploy_evaluation.py: zip_files, send_file and the run (__main__)       *)
(***************************************************************************)
MAX_FILE_SIZE_BYTES == 2
MaxNetCalls == 4
TOS_MAX_ATTEMPTS == 5

PreExisting == [study |-> <<>>, image |-> <<>>, file |-> <<"other", 0>>]

\* lines 178-188: [ok, keep, exists, store]; ok = FALSE is the failed assert.
\* arg tells what --preprocess_dir names: nothing ("none": mkdtemp), a path
\* that does not exist ("absent": makedirs), a file, or a directory holding store0
PreprocessSetup(arg, store0) ==
    IF arg = "none" THEN [ok |-> TRUE, keep |-> FALSE, exists |-> TRUE, store |-> {}]
    ELSE IF arg = "absent" THEN [ok |-> TRUE, keep |-> TRUE, exists |-> TRUE, store |-> {}]
    ELSE LET passes == arg # "file" /\ Cardinality(store0) > 0
         IN  [ok |-> passes, keep |-> passes, exists |-> TRUE, store |-> store0]

\* zip_files without the os.remove of line 37
ZipCheck_NoRemove(size) ==
    IF size > MAX_FILE_SIZE_BYTES THEN [raised |-> TRUE, archive |-> TRUE]
    ELSE [raised |-> FALSE, archive |-> TRUE]

\* lines 34-40: the size check of zip_files, the archive being written
ZipCheck(size) ==
    IF size > MAX_FILE_SIZE_BYTES THEN [raised |-> TRUE, archive |-> FALSE]
    ELSE [raised |-> FALSE, archive |-> TRUE]

\* args.access_key
access_key == "key"

\* str.startswith("ERROR") on the bodies met here
StartsWithError(body) == body \in {"ERROR: unknown sender", "ERROR: upload rejected"}

NewResponses ==
    {[status |-> 200, text |-> "sid-1"],
     [status |-> 200, text |-> "sid-2"],
     [status |-> 200, text |-> "ERROR: unknown sender"],
     [status |-> 500, text |-> "Internal Server Error"]}

UploadResponses ==
    {[status |-> 200, text |-> "https://server/results/sid-1.zip"],
     [status |-> 200, text |-> "ERROR: upload rejected"],
     [status |-> 503, text |-> "Service Unavailable"]}

\* ResponseOk without the startswith("ERROR") tests of lines 53 and 68
ResponseOk_StatusOnly(r) == r.status = 200

\* lines 51-54 and 66-69
ResponseOk(r) == r.status = 200 /\ ~StartsWithError(r.text)

\* the finally block, lines 244-248: [exists, store, archive]
Cleanup(keep, exists, store0) ==
    [exists |-> (IF keep THEN exists ELSE FALSE),
     store |-> (IF keep THEN store0 ELSE {}),
     archive |-> FALSE]

RunFrame == UNCHANGED <<inputVars, unVars, stVars, arg_preprocess, arg_results_url>>

Exit(reason) == pc' = "done" /\ exit_reason' = reason

\* lines 176-188, and 253-256 when --results_url is given
RunSetup ==
    /\ pc = "start"
    /\ IF arg_results_url
       THEN /\ pc' = "poll"
            /\ poll_pc' = "loop"
            /\ poll_max' = DEFAULT_MAX_ATTEMPTS
            /\ poll_arg' = DEFAULT_MAX_ATTEMPTS
            /\ UNCHANGED <<keep_preprocessed_dir, dir_exists, store, exit_reason>>
       ELSE LET r == PreprocessSetup(arg_preprocess, store)
            IN  /\ keep_preprocessed_dir' = r.keep
                /\ dir_exists' = r.exists
                /\ store' = r.store
                /\ IF r.ok THEN pc' = "ingest" /\ UNCHANGED exit_reason
                   ELSE Exit("AssertionError: preprocess_dir")
                /\ UNCHANGED <<poll_pc, poll_max, poll_arg>>
    /\ UNCHANGED <<archive, walk_todo, num_studies, num_images, ingested, limit_hit,
                   file_size, session_id, n_attempts, tos_answers, net, poll_i, poll_log>>
    /\ RunFrame

RunSetIngest(st) ==
    /\ store' = st.store
    /\ num_studies' = st.num_studies
    /\ num_images' = st.num_images
    /\ ingested' = st.ingested
    /\ limit_hit' = st.limit_hit

RunIngestState ==
    [num_studies |-> num_studies, num_images |-> num_images, store |-> store,
     ingested |-> ingested, limit_hit |-> limit_hit, raised |-> FALSE]

\* lines 194-201 and 218-219: a single file is read at once, a directory is walked
RunIngestBegin ==
    /\ pc = "ingest"
    /\ IF input_kind = "file"
       THEN LET st == IngestFile(input_, tree, store)
            IN  /\ RunSetIngest(st)
                /\ IF st.raised THEN Exit("exception in read_study")
                   ELSE pc' = "check_images" /\ UNCHANGED exit_reason
                /\ UNCHANGED walk_todo
       ELSE IF input_kind = "dir"
       THEN /\ walk_todo' = Walk(tree, input_)
            /\ pc' = "walk"
            /\ UNCHANGED <<store, num_studies, num_images, ingested, limit_hit, exit_reason>>
       ELSE /\ Exit("Path does not exist")
            /\ UNCHANGED <<store, num_studies, num_images, ingested, limit_hit, walk_todo>>
    /\ UNCHANGED <<keep_preprocessed_dir, dir_exists, archive, file_size, session_id,
                   n_attempts, tos_answers, net, pollVars>>
    /\ RunFrame

\* lines 202-216: one os.walk entry; the limit breaks the loop
RunWalkStep ==
    /\ pc = "walk"
    /\ walk_todo # <<>>
    /\ LET st == WalkStep(Head(walk_todo), RunIngestState)
       IN  /\ RunSetIngest(st)
           /\ walk_todo' = Tail(walk_todo)
           /\ IF st.raised THEN Exit("exception in read_study")
              ELSE /\ pc' = (IF st.limit_hit # NoPath THEN "check_images" ELSE "walk")
                   /\ UNCHANGED exit_reason
    /\ UNCHANGED <<keep_preprocessed_dir, dir_exists, archive, file_size, session_id,
                   n_attempts, tos_answers, net, pollVars>>
    /\ RunFrame

RunWalkEnd ==
    /\ pc = "walk"
    /\ walk_todo = <<>>
    /\ pc' = "check_images"
    /\ UNCHANGED <<keep_preprocessed_dir, dir_exists, archive, walk_todo, num_studies,
                   num_images, ingested, limit_hit, file_size, session_id, n_attempts, tos_answers, net,
                   exit_reason, store, pollVars>>
    /\ RunFrame

\* lines 221-223, then lines 21-33 of zip_files: the archive is written
RunZipCreate ==
    /\ pc = "check_images"
    /\ IF num_images = 0
       THEN Exit("No valid files were found") /\ UNCHANGED archive
       ELSE pc' = "zip_check" /\ archive' = TRUE /\ UNCHANGED exit_reason
    /\ UNCHANGED <<keep_preprocessed_dir, dir_exists, walk_todo, num_studies,
                   num_images, ingested, limit_hit, file_size, session_id, n_attempts, tos_answers, net,
                   store, pollVars>>
    /\ RunFrame

\* lines 34-40 of zip_files
RunZipCheck ==
    /\ pc = "zip_check"
    /\ \E size \in {1, MAX_FILE_SIZE_BYTES, MAX_FILE_SIZE_BYTES + 1} :
         /\ file_size' = size
         /\ archive' = ZipCheck(size).archive
         /\ IF ZipCheck(size).raised THEN Exit("Max file size exceeded")
            ELSE pc' = "tos" /\ UNCHANGED exit_reason
    /\ UNCHANGED <<keep_preprocessed_dir, dir_exists, walk_todo, num_studies,
                   num_images, ingested, limit_hit, session_id, n_attempts, tos_answers, net,
                   store, pollVars>>
    /\ RunFrame

\* str(input(...)).lower().strip() on the answers met here
LowerStripAnswer(answer) == CASE answer \in {"Y", " y"} -> "y" [] OTHER -> answer

\* the loop of lines 232-239 letting every answer through to send_file
RunPrompt_NoGate ==
    /\ pc = "tos"
    /\ n_attempts < TOS_MAX_ATTEMPTS
    /\ \E answer \in {"y", "Y", " y", "n", "maybe"} :
         /\ tos_answers' = Append(tos_answers, answer)
         /\ pc' = "send_new"
         /\ n_attempts' = IF LowerStripAnswer(answer) = "y" THEN n_attempts ELSE n_attempts + 1
         /\ UNCHANGED exit_reason
    /\ UNCHANGED <<keep_preprocessed_dir, dir_exists, archive, walk_todo, num_studies,
                   num_images, ingested, limit_hit, file_size, session_id, net,
                   store, pollVars>>
    /\ RunFrame

\* lines 232-239: one answer to the prompt
RunPrompt ==
    /\ pc = "tos"
    /\ n_attempts < TOS_MAX_ATTEMPTS
    /\ \E answer \in {"y", "Y", " y", "n", "maybe"} :
         /\ tos_answers' = Append(tos_answers, answer)
         /\ IF LowerStripAnswer(answer) = "y"
            THEN pc' = "send_new" /\ UNCHANGED <<n_attempts, exit_reason>>
            ELSE /\ n_attempts' = n_attempts + 1
                 /\ IF LowerStripAnswer(answer) = "n" \/ n_attempts + 1 >= TOS_MAX_ATTEMPTS
                    THEN Exit("You must agree to the Terms of Service")
                    ELSE pc' = "tos" /\ UNCHANGED exit_reason
    /\ UNCHANGED <<keep_preprocessed_dir, dir_exists, archive, walk_todo, num_studies,
                   num_images, ingested, limit_hit, file_size, session_id, net,
                   store, pollVars>>
    /\ RunFrame

RunCleanup ==
    LET c == Cleanup(keep_preprocessed_dir, dir_exists, store)
    IN  /\ dir_exists' = c.exists
        /\ store' = c.store
        /\ archive' = c.archive

\* send_file lines 50-55 inside the try of line 241
RunPostNew ==
    /\ pc = "send_new"
    /\ \E r \in NewResponses :
         /\ net' = Append(net, [call |-> "POST /new", SessionId |-> "", AccessKey |-> access_key,
                                status |-> r.status, text |-> r.text])
         /\ IF ResponseOk(r)
            THEN /\ session_id' = r.text
                 /\ pc' = "send_upload"
                 /\ UNCHANGED <<exit_reason, dir_exists, store, archive>>
            ELSE /\ RunCleanup
                 /\ Exit("send_file: /new failed")
                 /\ UNCHANGED session_id
    /\ UNCHANGED <<keep_preprocessed_dir, walk_todo, num_studies, num_images, ingested,
                   limit_hit, file_size, n_attempts, tos_answers, pollVars>>
    /\ RunFrame

\* send_file lines 56-71, then the finally block and lines 249-259
RunPostUpload ==
    /\ pc = "send_upload"
    /\ \E r \in UploadResponses :
         /\ net' = Append(net, [call |-> "POST /upload", SessionId |-> session_id,
                                AccessKey |-> access_key,
                                status |-> r.status, text |-> r.text])
         /\ RunCleanup
         /\ IF ResponseOk(r)
            THEN /\ pc' = "poll"
                 /\ poll_pc' = "loop"
                 /\ poll_max' = DEFAULT_MAX_ATTEMPTS
                 /\ poll_arg' = DEFAULT_MAX_ATTEMPTS
                 /\ UNCHANGED exit_reason
            ELSE /\ Exit("send_file: /upload failed")
                 /\ UNCHANGED <<poll_pc, poll_max, poll_arg>>
    /\ UNCHANGED <<keep_preprocessed_dir, walk_todo, num_studies, num_images, ingested,
                   limit_hit, file_size, session_id, n_attempts, tos_answers, poll_i, poll_log>>
    /\ RunFrame

\* line 260: download_remote_results with its default max_attempts; each
\* pass is one GET, and the run goes on to lines 261-287 with what it returns
RunPoll ==
    /\ pc = "poll"
    /\ Len(net) < MaxNetCalls
    /\ \/ \E status \in StatusCodes :
             /\ PollGet(status)
             /\ net' = Append(net, [call |-> "GET results", SessionId |-> session_id,
                                    AccessKey |-> "", status |-> status, text |-> ""])
       \/ /\ PollGiveUp
          /\ UNCHANGED net
    /\ IF poll_pc' = "returned_file" THEN Exit("results downloaded")
       ELSE IF poll_pc' = "returned_none" THEN Exit("Results could not be found")
       ELSE UNCHANGED <<pc, exit_reason>>
    /\ UNCHANGED <<keep_preprocessed_dir, dir_exists, archive, walk_todo, num_studies,
                   num_images, ingested, limit_hit, file_size, session_id, n_attempts, tos_answers, store>>
    /\ RunFrame

\* Ctrl+C: KeyboardInterrupt leaves the run where it stands; inside the try
\* of lines 241-248 the finally block runs first
RunInterrupt ==
    /\ pc \notin {"start", "done", "idle"}
    /\ IF pc \in {"send_new", "send_upload"}
       THEN RunCleanup
       ELSE UNCHANGED <<dir_exists, store, archive>>
    /\ Exit("KeyboardInterrupt")
    /\ UNCHANGED <<keep_preprocessed_dir, walk_todo, num_studies, num_images, ingested,
                   limit_hit, file_size, session_id, n_attempts, tos_answers, net, pollVars>>
    /\ RunFrame

(***************************************************************************)
(* The run: inputs of the checks, Init, Next                               *)
(***************************************************************************)
NonAsciiDirName == <<233>>

RunInputs ==
    {[kind |-> "dir", input |-> RootAscii,
      node |-> Forest(<<Files(<<Valid2D, Valid2D>>), Files(<<Valid2D, Valid2D>>), Files(<<Valid2D>>)>>)],
     [kind |-> "dir", input |-> RootAscii,
      node |-> Forest(<<Files(<<Valid2D>>), Files(<<ValidDbt>>), Files(<<Valid2D>>)>>)],
     [kind |-> "dir", input |-> RootAscii,
      node |-> Forest(<<Files(<<Valid2D, WrongSop>>), Files(<<WrongSop, WrongSop, Valid2D>>)>>)],
     [kind |-> "dir", input |-> RootAscii,
      node |-> Forest(<<Files(<<Valid2D, WrongSop, NotADicom>>), Files(<<Valid2D, Valid2D>>)>>)],
     [kind |-> "dir", input |-> RootAscii, node |-> Forest(<<Files(<<WrongSop>>)>>)],
     [kind |-> "dir", input |-> RootAscii, node |-> StudyDir(Files(<<Valid2D, WrongSop>>))],
     [kind |-> "dir", input |-> RootAscii,
      node |-> [dirs |-> <<[name |-> DirName(1), node |-> StudyDir(Files(<<Valid2D>>))],
                           [name |-> NonAsciiDirName, node |-> StudyDir(Files(<<Valid2D>>))]>>,
                files |-> Files(<<Valid2D>>)]],
     [kind |-> "file", input |-> PathJoin(RootAscii, PosName(2)),
      node |-> StudyDir(Files(<<Valid2D, Valid2D>>))],
     [kind |-> "file", input |-> PathJoin(RootAscii, PosName(1)),
      node |-> StudyDir(Files(<<NotADicom>>))],
     [kind |-> "missing", input |-> RootAscii, node |-> StudyDir(<<>>)]}

\* a digest for the k-th path of the input, all different in their first eight digits
RunDigest(k) == [i \in 1..9 |-> (k + i) % 16]

RunSha(paths) ==
    [p \in {q \in SeqRange(paths) : IsAscii(q)} |->
        RunDigest(CHOOSE k \in 1..Len(paths) : paths[k] = p)]

Init ==
    /\ \E inp \in RunInputs :
         /\ input_ = inp.input
         /\ input_kind = inp.kind
         /\ tree = inp.node
         /\ sha = RunSha(InputPaths(inp))
    /\ arg_preprocess \in {"none", "absent", "file", "empty", "nonempty"}
    /\ arg_results_url \in BOOLEAN
    /\ dir_exists = (arg_preprocess \in {"file", "empty", "nonempty"})
    /\ store = (IF arg_preprocess = "nonempty" THEN {PreExisting} ELSE {})
    /\ pc = "start"
    /\ keep_preprocessed_dir = FALSE /\ archive = FALSE
    /\ walk_todo = <<>> /\ num_studies = 0 /\ num_images = 0 /\ ingested = <<>>
    /\ limit_hit = NoPath /\ file_size = 0 /\ session_id = ""
    /\ n_attempts = 0 /\ tos_answers = <<>> /\ net = <<>> /\ exit_reason = ""
    /\ IdlePoll /\ IdleUnhash /\ IdleStudy

Next ==
    \/ RunSetup \/ RunIngestBegin \/ RunWalkStep \/ RunWalkEnd \/ RunZipCreate
    \/ RunZipCheck \/ RunPrompt \/ RunPostNew \/ RunPostUpload \/ RunPoll
    \/ RunInterrupt

Spec == Init /\ [][Next]_vars

(***************************************************************************)
(* Claims about the run (Spec)                                             *)
(***************************************************************************)
FreshRun == ~arg_results_url

\* C2: on every exit path of a run that starts from a fresh input the
\* archive no longer exists when the run ends, and neither does the
\* preprocessing store unless the caller supplied --preprocess_dir.
ClaimedExits ==
    {"results downloaded", "send_file: /new failed", "send_file: /upload failed",
     "Max file size exceeded", "No valid files were found",
     "You must agree to the Terms of Service", "KeyboardInterrupt"}

C2_CleanupOnEveryExit ==
    (FreshRun /\ pc = "done" /\ exit_reason \in ClaimedExits) =>
        /\ ~archive
        /\ (arg_preprocess = "none" => ~dir_exists)

\* C7: when the packaged store is larger than MAX_FILE_SIZE_BYTES zip_files
\* raises, the temporary archive has been removed when the exception
\* propagates, and the run has made no network call.
C7_ArchiveSizeGuard ==
    file_size > MAX_FILE_SIZE_BYTES =>
        /\ pc = "done"
        /\ exit_reason = "Max file size exceeded"
        /\ ~archive
        /\ net = <<>>

C7_Witness ==
    /\ file_size > MAX_FILE_SIZE_BYTES
    /\ exit_reason = "Max file size exceeded"
    /\ num_images > 0

\* the study folders of the input, in walk order
StudyFolders == SelectSeq(Walk(tree, input_), IsStudyFolder)

RECURSIVE SumRows(_)
SumRows(ing) == IF ing = <<>> THEN 0 ELSE Len(Head(ing).rows) + SumRows(Tail(ing))

Walking == input_kind = "dir" /\ pc \in {"walk", "check_images", "zip_check", "tos", "send_new", "send_upload"}

\* the rows read_study yields for a study folder of the walk
ImagesOf(w) == Len(read_study(w.root, w.files, NoPath, {}).rows)

\* what C8 states in both readings: studies are ingested in walk order, once
\* the walk stopped no later study is ingested, ingested studies stay in the
\* store, and the counts stay within MAX_STUDIES and MAX_IMAGES
C8_Common ==
    /\ Len(ingested) <= MAX_STUDIES
    /\ num_images <= MAX_IMAGES
    /\ num_images = SumRows(ingested)
    /\ Len(ingested) <= Len(StudyFolders)
    /\ \A k \in 1..Len(ingested) : ingested[k].study = StudyFolders[k].root
    /\ (limit_hit # NoPath =>
          /\ Len(ingested) < Len(StudyFolders)
          /\ limit_hit = StudyFolders[Len(ingested) + 1].root
          /\ num_studies = Len(ingested) + 1)
    /\ (Walking /\ pc # "walk" /\ limit_hit = NoPath => Len(ingested) = Len(StudyFolders))
    /\ (Walking => \A k \in 1..Len(ingested) :
                      MetadataFile(create_hash(ingested[k].study)) \in store)

\* C8 as stated: in a directory run the studies are ingested in walk order;
\* the walk stops early only once the study count or the cumulative image
\* count (with the study at hand) is exceeded, no later study is ingested,
\* ingested studies stay in the store, and at most MAX_STUDIES studies and
\* MAX_IMAGES images are ever ingested.
C8_StopsOnlyWhenExceeded ==
    (input_kind = "dir" /\ FreshRun) =>
        /\ C8_Common
        /\ (limit_hit # NoPath =>
              \/ num_studies > MAX_STUDIES
              \/ num_images + ImagesOf(StudyFolders[Len(ingested) + 1]) > MAX_IMAGES)

\* C8 amended: the walk stops early only at a study folder at which the
\* number of study folders met exceeds MAX_STUDIES or the images ingested so
\* far plus the number of files in that folder exceeds MAX_IMAGES; the rest
\* as stated.
C8_EvaluationLimit ==
    (input_kind = "dir" /\ FreshRun) =>
        /\ C8_Common
        /\ (limit_hit # NoPath =>
              \/ num_studies > MAX_STUDIES
              \/ num_images + Len(StudyFolders[Len(ingested) + 1].files) > MAX_IMAGES)

\* the walk was stopped at its second study folder with the first one ingested,
\* and later study folders were left unread
C8_Witness ==
    /\ input_kind = "dir" /\ FreshRun
    /\ pc = "tos"
    /\ limit_hit # NoPath
    /\ Len(ingested) >= 1
    /\ Len(StudyFolders) > Len(ingested) + 1
    /\ \A k \in 1..Len(ingested) : MetadataFile(create_hash(ingested[k].study)) \in store

\* the response of a call of the log was a success as the claim words it
CallSucceeded(c) ==
    c.status = 200 /\ c.text \notin {"ERROR: unknown sender", "ERROR: upload rejected"}

\* C12: POST /upload is issued only after POST /new returned 200 with a
\* body not prefixed 'ERROR', and carries that session id and the access key;
\* when either call returns a non-200 status or an 'ERROR' body, send_file
\* raises, the run ends and no later protocol step is performed.
C12_ProtocolOrdering ==
    FreshRun =>
        \A i \in 1..Len(net) :
            /\ (net[i].call = "POST /new" => i = 1 /\ net[i].AccessKey = "key")
            /\ (net[i].call = "POST /upload" =>
                  /\ i = 2
                  /\ net[1].call = "POST /new" /\ CallSucceeded(net[1])
                  /\ net[i].SessionId = net[1].text
                  /\ net[i].AccessKey = "key")
            /\ (net[i].call = "GET results" =>
                  /\ i > 2
                  /\ net[2].call = "POST /upload" /\ CallSucceeded(net[2])
                  /\ net[i].SessionId = net[1].text)
            /\ (net[i].call \in {"POST /new", "POST /upload"} /\ ~CallSucceeded(net[i]) =>
                  /\ i = Len(net)
                  /\ pc = "done"
                  /\ exit_reason = (IF i = 1 THEN "send_file: /new failed"
                                    ELSE "send_file: /upload failed"))

\* the upload, sent with the session id /new returned, was answered with an
\* 'ERROR' body and the run ended
C12_Witness ==
    /\ FreshRun
    /\ Len(net) = 2
    /\ net[1].text = "sid-2"
    /\ net[2].call = "POST /upload" /\ net[2].SessionId = "sid-2"
    /\ net[2].status = 200 /\ net[2].text = "ERROR: upload rejected"
    /\ pc = "done"

\* the run got past the set-up of the preprocessing directory
PastSetup == pc \notin {"start", "done"} \/ exit_reason \notin {"", "AssertionError: preprocess_dir", "KeyboardInterrupt"}

\* C14: when --preprocess_dir names a path that already exists, the run
\* proceeds only if the path is an empty directory; an existing file or an
\* existing non-empty directory is rejected with the message asking for a new
\* or empty folder, before any file is ingested.
C14_PreprocessDirGuard ==
    (FreshRun /\ arg_preprocess \in {"file", "empty", "nonempty"}) =>
        /\ (PastSetup => arg_preprocess = "empty")
        /\ (arg_preprocess \in {"file", "nonempty"} /\ pc # "start" =>
              /\ pc = "done"
              /\ exit_reason \in {"AssertionError: preprocess_dir", "KeyboardInterrupt"}
              /\ ingested = <<>> /\ num_images = 0
              /\ store = (IF arg_preprocess = "nonempty" THEN {PreExisting} ELSE {}))

\* the answers that confirm: 'y' in either case, blanks aside
Agrees(answer) == answer \in {"y", "Y", " y"}

Posts == {i \in 1..Len(net) : net[i].call \in {"POST /new", "POST /upload"}}

\* C15: no POST /new or POST /upload is made unless the user answered 'y' to
\* the prompt; the prompt is asked at most 5 times; an answer 'n' or a fifth
\* answer other than 'y' ends the run without anything being sent.
C15_TermsGate ==
    FreshRun =>
        /\ Len(tos_answers) <= 5
        /\ (Posts # {} \/ pc \in {"send_new", "send_upload", "poll"} =>
              tos_answers # <<>> /\ Agrees(tos_answers[Len(tos_answers)]))
        /\ \A k \in 1..Len(tos_answers) :
              (tos_answers[k] = "n" \/ (k = 5 /\ ~Agrees(tos_answers[k]))) =>
                 /\ k = Len(tos_answers)
                 /\ pc = "done"
                 /\ exit_reason = "You must agree to the Terms of Service"
                 /\ net = <<>>

\* the fifth answer was again neither 'y' nor 'n' and the run ended unsent
C15_Witness ==
    /\ FreshRun
    /\ Len(tos_answers) = 5
    /\ tos_answers[5] = "maybe"
    /\ pc = "done"
    /\ net = <<>>


====
